---- MODULE Spec2Model ----
(***************************************************************************)
(* DataProcessor.process_test_data (src/database.py): best-fit selection   *)
(* of one ideal function per training signal by mean squared error, then   *)
(* assignment of every test row to the nearest selected function within    *)
(* sqrt(2) times the largest training deviation.                           *)
(*                                                                         *)
(* Values are integers.  An MSE is kept as the exact fraction <<sum, n>>.  *)
(* The comparison d <= sqrt(2) * b is decided as d*d <= 2*b*b, which is    *)
(* the same predicate for non-negative d and b.                            *)
(***************************************************************************)
EXTENDS Integers, Sequences, FiniteSets

\* ---- bounds of the model -------------------------------------------------
SelRows  == 2      \* selection inputs: rows of the tables
SelY     == 2      \* selection inputs: y values are 0..SelY
SelCands == 2      \* selection inputs: candidate columns
ClsRows  == 2      \* classification inputs: rows of the tables
ClsY     == 2      \* classification inputs: y values are 0..ClsY
ClsCands == 2      \* classification inputs: candidate columns
MaxRows  == 2      \* shape inputs: rows of a table
MaxX     == 2      \* shape inputs: x values are 0..MaxX
MaxY     == 2      \* shape inputs: y values are 0..MaxY
MaxCands == 2      \* shape inputs: candidate columns
MaxTests == 2      \* shape inputs: rows of the test file
MaxBump  == 2      \* largest increase of a deviation bound that is tried

\* ---- program constants ---------------------------------------------------
NumTraining == 4   \* for i in range(1, 5)

\* ---- values that are not numbers -----------------------------------------
None == -1         \* best_func = None, best_fit = None
Inf  == -2         \* float('inf'); every deviation is >= 0
NaN  == -3         \* the result of max() over no value

VARIABLES training_data, ideal_functions, test_data,
          best_ideal_funcs, results, test_data_table, pc, exc

vars == <<training_data, ideal_functions, test_data,
          best_ideal_funcs, results, test_data_table, pc, exc>>

Abs(a) == IF a < 0 THEN -a ELSE a

Range(s) == {s[k] : k \in 1..Len(s)}

SeqsOfLen(S, n) == [1..n -> S]

DistinctSeqs(S, n) == {s \in [1..n -> S] : \A a, b \in 1..n : a # b => s[a] # s[b]}

\* ---- sklearn.metrics.mean_squared_error ----------------------------------
RECURSIVE SumSqErr(_, _, _)
SumSqErr(y_true, y_pred, k) ==
    IF k = 0 THEN 0
    ELSE (y_true[k] - y_pred[k]) * (y_true[k] - y_pred[k]) + SumSqErr(y_true, y_pred, k - 1)

\* check_consistent_length and the minimum of one sample: ValueError
MseRaises(y_true, y_pred) == Len(y_true) # Len(y_pred) \/ Len(y_true) = 0

\* the mean, as the fraction <<numerator, denominator>>; the two columns are paired by position
mean_squared_error(y_true, y_pred) == <<SumSqErr(y_true, y_pred, Len(y_true)), Len(y_true)>>

InfMse == <<1, 0>>

\* the comparison turned around: mse > min_mse
MseLessReversed(mse, min_mse) ==
    IF min_mse = InfMse THEN TRUE ELSE mse[1] * min_mse[2] > min_mse[1] * mse[2]

\* mse < min_mse
MseLess(mse, min_mse) ==
    IF min_mse = InfMse THEN TRUE ELSE mse[1] * min_mse[2] < min_mse[1] * mse[2]

\* ---- the selection loop over ideal_functions_df.columns ------------------
RECURSIVE ScanCols(_, _, _, _, _)
ScanCols(y_true, cols, c, min_mse, best_func) ==
    IF c > Len(cols) THEN best_func
    ELSE LET mse == mean_squared_error(y_true, cols[c])
         IN  IF MseLess(mse, min_mse)
             THEN ScanCols(y_true, cols, c + 1, mse, c)
             ELSE ScanCols(y_true, cols, c + 1, min_mse, best_func)

\* ---- ideal_functions_df.loc[x_val, ideal_func] ---------------------------
InIndex(x_val) == x_val \in Range(ideal_functions.x)

RowOf(x_val) == CHOOSE k \in 1..Len(ideal_functions.x) : ideal_functions.x[k] = x_val

Loc(x_val, ideal_func) == ideal_functions.cols[ideal_func][RowOf(x_val)]

LocRaises(x_val, ideal_func) == ideal_func = None \/ ~InIndex(x_val)

\* ---- abs(training_data[f'y{idx+1}'] - ideal_functions_df[ideal_func]).max()
\* The training column carries the default index 0..n-1, the ideal column is
\* indexed by x: the subtraction aligns the two on equal labels and leaves NaN
\* elsewhere, and max() skips NaN.
AlignedLabels == {k \in 0..(Len(training_data.x) - 1) : InIndex(k)}

SetMax(S) == IF S = {} THEN NaN ELSE CHOOSE v \in S : \A w \in S : w <= v

MaxDeviation(idx, ideal_func) ==
    SetMax({Abs(training_data.y[idx][k + 1] - Loc(k, ideal_func)) : k \in AlignedLabels})

\* an exclusive gate: deviation < np.sqrt(2) * bound
WithinToleranceStrict(deviation, bound) ==
    IF bound = NaN THEN FALSE ELSE deviation * deviation < 2 * bound * bound

\* the gate turned around: deviation >= np.sqrt(2) * bound
WithinToleranceReversed(deviation, bound) ==
    IF bound = NaN THEN FALSE ELSE deviation * deviation >= 2 * bound * bound

\* deviation <= np.sqrt(2) * bound
WithinTolerance(deviation, bound) ==
    IF bound = NaN THEN FALSE ELSE deviation * deviation <= 2 * bound * bound

\* a later fit replaces an equally near one: deviation <= min_deviation
DevLessOrEqual(deviation, min_deviation) ==
    IF min_deviation = Inf THEN TRUE ELSE deviation <= min_deviation

\* deviation < min_deviation
DevLess(deviation, min_deviation) ==
    IF min_deviation = Inf THEN TRUE ELSE deviation < min_deviation

\* ---- the loop over enumerate(best_ideal_funcs) for one test row ----------
RECURSIVE ScanFits(_, _, _, _, _, _, _)
ScanFits(x_val, y_val, funcs, bounds, idx, min_deviation, best_fit) ==
    IF idx > Len(funcs) THEN [delta_y |-> min_deviation, ideal_func_no |-> best_fit]
    ELSE LET deviation == Abs(y_val - Loc(x_val, funcs[idx]))
         IN  IF WithinTolerance(deviation, bounds[idx]) /\ DevLess(deviation, min_deviation)
             THEN ScanFits(x_val, y_val, funcs, bounds, idx + 1, deviation, idx)
             ELSE ScanFits(x_val, y_val, funcs, bounds, idx + 1, min_deviation, best_fit)

Bounds(funcs) == [idx \in 1..Len(funcs) |-> MaxDeviation(idx, funcs[idx])]

RowRaises(x_val, funcs) == \E idx \in 1..Len(funcs) : LocRaises(x_val, funcs[idx])

ClassifyRow(row, funcs, bounds) ==
    LET fit == ScanFits(row.x, row.y, funcs, bounds, 1, Inf, None)
    IN  [x |-> row.x, y |-> row.y, delta_y |-> fit.delta_y, ideal_func_no |-> fit.ideal_func_no]

\* ---- the tables drawn as inputs -----------------------------------------
ConstCol(n, v) == [k \in 1..n |-> v]

Mirror(col, maxy) == [k \in 1..Len(col) |-> maxy - col[k]]

Reverse(col) == [k \in 1..Len(col) |-> col[Len(col) + 1 - k]]

Identity(n) == [k \in 1..n |-> k - 1]

Shifted(g) == [k \in 1..Len(g) |-> g[k] + 1]

Front(g) == SubSeq(g, 1, Len(g) - 1)

\* Selection inputs: both tables on the grid 0..n-1, n up to SelRows; y2 is
\* y1 mirrored, y3 is y1 reversed, y4 is zero; the first candidate is an
\* arbitrary column over 0..SelY, a candidate k >= 3 is the constant k-3; of
\* y1 and the second candidate one is arbitrary and the other constant; one
\* test row.
ConstCols(n, maxy) == {ConstCol(n, v) : v \in 0..maxy}

SelCols(c1, c2, m) ==
    [k \in 1..m |-> IF k = 1 THEN c1 ELSE IF k = 2 THEN c2 ELSE ConstCol(Len(c1), (k - 3) % (SelY + 1))]

SelTables(n, Y1, C2) ==
    /\ \E y1 \in Y1 :
          training_data = [x |-> Identity(n), y |-> <<y1, Mirror(y1, SelY), Reverse(y1), ConstCol(n, 0)>>]
    /\ \E c1 \in SeqsOfLen(0..SelY, n) :
          \/ ideal_functions = [x |-> Identity(n), cols |-> <<c1>>]
          \/ \E c2 \in C2, m \in 2..SelCands :
                ideal_functions = [x |-> Identity(n), cols |-> SelCols(c1, c2, m)]
    /\ test_data = <<[x |-> 0, y |-> 0]>>

SelInit ==
    \E n \in 1..SelRows :
       \/ SelTables(n, SeqsOfLen(0..SelY, n), ConstCols(n, SelY))
       \/ SelTables(n, ConstCols(n, SelY), SeqsOfLen(0..SelY, n))

\* Classification inputs: both tables on one grid of n rows, n up to ClsRows,
\* the grid 0..n-1, 1..n or n-1..0; the first candidate is a step column over
\* 0..ClsY (one value at the first row, one value at the other rows), the
\* second the constant v and a candidate k >= 3 the constant v+k-2 (modulo
\* ClsY+1); y1 is the first candidate, y2 a step column, y3 is the first
\* candidate mirrored, y4 repeats y2; one test row with x on the grid.
StepCols(n, maxy) == {[k \in 1..n |-> IF k = 1 THEN a ELSE b] : a \in 0..maxy, b \in 0..maxy}

ClsGrids(n) == {Identity(n), Shifted(Identity(n)), Reverse(Identity(n))}

ClsCols(c1, v, m) ==
    [k \in 1..m |-> IF k = 1 THEN c1 ELSE ConstCol(Len(c1), (v + k - 2) % (ClsY + 1))]

ClsInit ==
    \E n \in 1..ClsRows : \E g \in ClsGrids(n) :
       \E c1 \in StepCols(n, ClsY) :
          /\ \E y2 \in StepCols(n, ClsY) :
                training_data = [x |-> g, y |-> <<c1, y2, Mirror(c1, ClsY), y2>>]
          /\ \/ ideal_functions = [x |-> g, cols |-> <<c1>>]
             \/ \E v \in 0..ClsY, m \in 2..ClsCands :
                   ideal_functions = [x |-> g, cols |-> ClsCols(c1, v, m)]
          /\ \E x \in Range(g), y \in 0..ClsY : test_data = <<[x |-> x, y |-> y]>>

\* Shape inputs: any grid of distinct x values with up to MaxRows rows (none
\* included) for the ideal table, with zero to MaxCands constant candidates;
\* the training table on the same grid, on the grid moved by one, or on a grid
\* one row shorter or longer, its four signals the same constant; up to MaxTests
\* test rows with any x, on the grid or not.
ShapeGridPairs ==
    UNION {{<<g, g>>, <<Shifted(g), g>>, <<Front(g), g>>, <<g, Front(g)>>} :
              g \in UNION {DistinctSeqs(0..MaxX, n) : n \in 1..MaxRows}}
    \cup {<<(<<>>), (<<>>)>>}

ShapeInit ==
    \E gp \in ShapeGridPairs :
       /\ \E v \in 0..MaxY :
             training_data = [x |-> gp[1], y |-> [i \in 1..NumTraining |-> ConstCol(Len(gp[1]), v)]]
       /\ \E m \in 0..MaxCands : \E vs \in SeqsOfLen(0..MaxY, m) :
             ideal_functions = [x |-> gp[2], cols |-> [k \in 1..m |-> ConstCol(Len(gp[2]), vs[k])]]
       /\ \E t \in 1..MaxTests : test_data \in SeqsOfLen([x : 0..MaxX, y : 0..MaxY], t)

\* What process_test_data starts from and has not yet computed.
Entry ==
    /\ best_ideal_funcs = <<>>
    /\ results = <<>>
    /\ test_data_table = <<>>
    /\ pc = "select"
    /\ exc = "none"

\* The state after create_database and load_data, on entry to process_test_data.
Init == (SelInit \/ ClsInit \/ ShapeInit) /\ Entry

InitSelect == SelInit /\ Entry

InitClassify == ClsInit /\ Entry

\* One pass of "for i in range(1, 5)".
SelectBestFunc ==
    /\ pc = "select"
    /\ LET i == Len(best_ideal_funcs) + 1
           y_true == training_data.y[i]
           cols == ideal_functions.cols
       IN  IF Len(cols) > 0 /\ MseRaises(y_true, cols[1])
           THEN /\ pc' = "raised"
                /\ exc' = "ValueError"
                /\ UNCHANGED best_ideal_funcs
           ELSE /\ best_ideal_funcs' = Append(best_ideal_funcs, ScanCols(y_true, cols, 1, InfMse, None))
                /\ pc' = IF i = NumTraining THEN "classify" ELSE "select"
                /\ UNCHANGED exc
    /\ UNCHANGED <<training_data, ideal_functions, test_data, results, test_data_table>>

\* One pass of "for _, row in test_data.iterrows()".
ClassifyTestRow ==
    /\ pc = "classify"
    /\ Len(results) < Len(test_data)
    /\ LET row == test_data[Len(results) + 1]
       IN  IF RowRaises(row.x, best_ideal_funcs)
           THEN /\ pc' = "raised"
                /\ exc' = "KeyError"
                /\ UNCHANGED results
           ELSE /\ results' = Append(results, ClassifyRow(row, best_ideal_funcs, Bounds(best_ideal_funcs)))
                /\ UNCHANGED <<pc, exc>>
    /\ UNCHANGED <<training_data, ideal_functions, test_data, best_ideal_funcs, test_data_table>>

\* results_df.to_sql('test_data', ...) and return results_df.
SaveResults ==
    /\ pc = "classify"
    /\ Len(results) = Len(test_data)
    /\ test_data_table' = results
    /\ pc' = "returned"
    /\ UNCHANGED <<training_data, ideal_functions, test_data, best_ideal_funcs, results, exc>>

Next == SelectBestFunc \/ ClassifyTestRow \/ SaveResults

Spec == Init /\ [][Next]_vars

\* the same program on the selection inputs only
SpecSelect == InitSelect /\ [][Next]_vars

\* the same program on the classification inputs only
SpecClassify == InitClassify /\ [][Next]_vars

TypeOK ==
    /\ pc \in {"select", "classify", "returned", "raised"}
    /\ exc \in {"none", "ValueError", "KeyError"}
    /\ Len(best_ideal_funcs) <= NumTraining
    /\ Len(results) <= Len(test_data)

\* ---- vocabulary of the properties ----------------------------------------
Terminated == pc \in {"returned", "raised"}

SharedGrid == training_data.x = ideal_functions.x

NumCands == Len(ideal_functions.cols)

\* the sum of squared errors of candidate c against signal i, position by position
SqErr(i, c) == SumSqErr(training_data.y[i], ideal_functions.cols[c], Len(ideal_functions.x))

\* |y - chosen_candidate_f(x)| for a test row and fit f
Dev(row, f) == Abs(row.y - Loc(row.x, best_ideal_funcs[f]))

\* the row is within the tolerance the classifier applies to fit f
Eligible(row, f) ==
    LET bound == MaxDeviation(f, best_ideal_funcs[f])
    IN  bound # NaN /\ Dev(row, f) * Dev(row, f) <= 2 * bound * bound

Fits == 1..NumTraining

\* max over grid positions k of |signal[k] - candidate[k]|
PositionalMax(i, c) ==
    SetMax({Abs(training_data.y[i][k] - ideal_functions.cols[c][k]) : k \in 1..Len(ideal_functions.x)})

\* C1: on a shared grid, the candidate chosen for each training signal has a
\* mean squared error no larger than that of any candidate of the table.
SelectionOptimal ==
    (SharedGrid /\ NumCands > 0) =>
        \A i \in 1..Len(best_ideal_funcs) :
            /\ best_ideal_funcs[i] \in 1..NumCands
            /\ \A c \in 1..NumCands : SqErr(i, best_ideal_funcs[i]) <= SqErr(i, c)

\* On a grid of two or more rows, a signal for which the second candidate is
\* strictly better than the first, yet not exact, has been given the second
\* candidate, and the selection is complete.
SelectionOptimalWitness ==
    /\ SharedGrid
    /\ Len(best_ideal_funcs) = NumTraining
    /\ Len(ideal_functions.x) >= 2
    /\ \E i \in Fits : best_ideal_funcs[i] = 2 /\ SqErr(i, 2) < SqErr(i, 1) /\ SqErr(i, 2) > 0

\* C2: on a shared grid of distinct x values, the deviation bound the
\* classifier uses for a fit is the maximum over grid positions k of
\* |signal[k] - candidate[k]|, the k-th training row paired with the k-th
\* candidate row.
BoundIsPositionalMax ==
    (SharedGrid /\ Len(results) > 0) =>
        \A f \in Fits : MaxDeviation(f, best_ideal_funcs[f]) = PositionalMax(f, best_ideal_funcs[f])

\* C3: a recorded assignment is a fit within its own tolerance (inclusive)
\* whose deviation is minimal among the fits within their tolerance, the
\* recorded deviation is that deviation, and a row with an eligible fit is
\* assigned.  Tolerance is the one the classifier applies to the fit.
AssignmentIsNearestEligible ==
    \A r \in 1..Len(results) :
        LET row == test_data[r]
            f == results[r].ideal_func_no
        IN  /\ f # None =>
                /\ f \in Fits
                /\ Eligible(row, f)
                /\ \A g \in Fits : Eligible(row, g) => Dev(row, f) <= Dev(row, g)
                /\ results[r].delta_y = Dev(row, f)
            /\ (\E g \in Fits : Eligible(row, g)) => f # None

\* A row is assigned to a fit although another fit is strictly nearer, that
\* nearer fit having a numeric bound the row exceeds; every bound is the
\* position-by-position maximum.
AssignmentIsNearestEligibleWitness ==
    /\ Len(results) > 0
    /\ \A f \in Fits : MaxDeviation(f, best_ideal_funcs[f]) = PositionalMax(f, best_ideal_funcs[f])
    /\ \E r \in 1..Len(results) :
        LET row == test_data[r]
            f == results[r].ideal_func_no
        IN  /\ f # None
            /\ \E g \in Fits : /\ Dev(row, g) < Dev(row, f)
                               /\ MaxDeviation(g, best_ideal_funcs[g]) # NaN
                               /\ ~Eligible(row, g)

\* C4: a test row whose x is not in the grid is reported as unmatched and the
\* other rows are still processed: the call returns one record per test row.
LookupMissIsPointLocal ==
    (/\ Terminated
     /\ SharedGrid /\ NumCands > 0 /\ Len(ideal_functions.x) > 0
     /\ \E r \in 1..Len(test_data) : ~InIndex(test_data[r].x)) =>
        /\ pc = "returned"
        /\ Len(results) = Len(test_data)
        /\ \A r \in 1..Len(test_data) : ~InIndex(test_data[r].x) => results[r].ideal_func_no = None

\* C5: a record without an assignment carries no deviation value: its delta_y
\* is neither a number nor infinity.
UnmatchedHasNoDeviation ==
    \A r \in 1..Len(results) :
        results[r].ideal_func_no = None => (results[r].delta_y \notin Nat /\ results[r].delta_y # Inf)

\* C6: when the grids of the two tables differ in length or in values (and
\* there is a candidate to compare), the run raises before any selection or
\* classification result is produced.
GridsDiffer == training_data.x # ideal_functions.x

ShapeMismatchFailsFast ==
    (GridsDiffer /\ NumCands > 0) =>
        /\ best_ideal_funcs = <<>>
        /\ results = <<>>
        /\ pc \in {"select", "raised"}

\* C7: a run on well-formed tables always returns, with exactly one record per
\* test row.
OneRecordPerTestPoint ==
    (Terminated /\ SharedGrid /\ NumCands > 0 /\ Len(ideal_functions.x) > 0) =>
        /\ pc = "returned"
        /\ Len(results) = Len(test_data)
        /\ Len(test_data_table) = Len(test_data)

\* C8: raising the deviation bound of one fit, all else fixed, keeps every row
\* assigned to that fit assigned to it.
BumpBound(bounds, j, d) == [bounds EXCEPT ![j] = @ + d]

ToleranceMonotone ==
    pc = "returned" =>
        LET bounds == Bounds(best_ideal_funcs)
        IN  \A r \in 1..Len(results) : \A j \in Fits :
                (/\ bounds[j] # NaN
                 /\ ClassifyRow(test_data[r], best_ideal_funcs, bounds).ideal_func_no = j) =>
                    \A d \in 1..MaxBump :
                        ClassifyRow(test_data[r], best_ideal_funcs, BumpBound(bounds, j, d)).ideal_func_no = j

\* The run has returned with a row assigned, off the candidate's curve, to a
\* fit other than the first while the first fit rejects it.
ToleranceMonotoneWitness ==
    /\ pc = "returned"
    /\ \E r \in 1..Len(results) : /\ results[r].ideal_func_no \in 2..NumTraining
                                  /\ results[r].delta_y > 0
                                  /\ ~Eligible(test_data[r], 1)

\* C9: with zero candidate columns or zero grid rows the run raises during the
\* selection and produces no selection or classification result.
EmptyInput == NumCands = 0 \/ Len(training_data.x) = 0 \/ Len(ideal_functions.x) = 0

EmptyInputFailsFast ==
    EmptyInput =>
        /\ best_ideal_funcs = <<>>
        /\ results = <<>>
        /\ pc \in {"select", "raised"}
        /\ pc = "raised" => exc = "ValueError"

\* C10: among the eligible fits of minimal deviation, the row is assigned to
\* the one with the lowest signal id.
LowestIdWinsTie ==
    \A r \in 1..Len(results) :
        LET row == test_data[r]
            f == results[r].ideal_func_no
        IN  f # None =>
                \A g \in Fits : (Eligible(row, g) /\ Dev(row, g) = Dev(row, f)) => f <= g

\* Two fits with different candidates are eligible with the same minimal,
\* non-zero deviation, and the row went to the lower id.
LowestIdWinsTieWitness ==
    \E r \in 1..Len(results) :
        LET row == test_data[r]
            f == results[r].ideal_func_no
        IN  /\ f # None
            /\ \E g \in Fits : /\ g > f
                               /\ best_ideal_funcs[g] # best_ideal_funcs[f]
                               /\ Eligible(row, g)
                               /\ Dev(row, g) = Dev(row, f)
                               /\ Dev(row, f) > 0
====
